---- MODULE Spec2Model ----
(***************************************************************************)
(* QueryBuilder (data-smith): an in-memory, chainable query builder over   *)
(* arrays of records.  Engines are modelled as a heap of instances, each   *)
(* wrapping one ordered sequence; every method of the class is one action. *)
(*                                                                         *)
(* Encoding of host values:                                                *)
(*   Person item        [id |-> i, age |-> a]                              *)
(*   number n (join)    [num |-> n]                                        *)
(*   undefined / null   Undefined / Null                                   *)
(*   NaN                the integer NaN, never === to anything             *)
(***************************************************************************)
EXTENDS Integers, Sequences, FiniteSets, TLC

VARIABLES engines, ret

vars == <<engines, ret>>

(* ------------------------------ bounds -------------------------------- *)
MaxLen == 3        \* longest source array handed to the constructor
MaxCount == 3      \* largest count / pageSize argument
MaxOther == 2      \* longest right-hand array handed to join

(* --------------------------- host values ------------------------------ *)
NaN == -1
Undefined == [t |-> "undefined"]
Null == [t |-> "null"]

Min2(a, b) == IF a < b THEN a ELSE b
Max2(a, b) == IF a > b THEN a ELSE b

\* a === b on numbers
StrictEq(a, b) == a # NaN /\ b # NaN /\ a = b
\* Map key equality (SameValueZero): NaN equals NaN
SameValueZero(a, b) == a = b
\* a > b and a < b on numbers: false when either side is NaN
Gt(a, b) == a # NaN /\ b # NaN /\ a > b
Lt(a, b) == a # NaN /\ b # NaN /\ a < b
\* x / x on numbers: 0 / 0 is NaN
SelfRatio(x) == IF x = 0 THEN NaN ELSE 1

\* truthiness of a host value
ToBoolean(v) ==
    IF "num" \in DOMAIN v THEN v.num # 0 /\ v.num # NaN
    ELSE IF "t" \in DOMAIN v THEN FALSE
    ELSE TRUE

(* ----------------------- caller-supplied inputs ----------------------- *)
Ages == {1, 2}
Persons == [id : 1..MaxLen, age : Ages]

\* source arrays: distinct records, ids in insertion order
Sources ==
    UNION { { s \in [1..n -> Persons] : \A i \in 1..n : s[i].id = i } : n \in 0..MaxLen }

\* arrays that from() installs in place of the wrapped sequence
Replacements == { s \in Sources : Len(s) <= 1 }

Numbers == { [num |-> n] : n \in {0, 2} }
NumberArrays == UNION { [1..n -> Numbers] : n \in 0..MaxOther }

Keys == {"id", "age"}
DescArgs == {"true", "false", "omitted"}
Descending(d) == d = "true"

\* key selectors over Person:
\*   "age"    p => p.age
\*   "parity" p => p.id % 2
\*   "ratio"  p => (p.age - 1) / (p.age - 1)
KeySelectors == {"age", "parity", "ratio"}
JoinSelectors == {"age", "parity"}
KeySelect(sel, p) ==
    CASE sel = "age" -> p.age
      [] sel = "parity" -> p.id % 2
      [] sel = "ratio" -> SelfRatio(p.age - 1)

\* key selectors over number:
\*   "self" n => n
\*   "mod2" n => n % 2
NumSelectors == {"self", "mod2"}
OtherKeySelect(sel, v) ==
    CASE sel = "self" -> v.num
      [] sel = "mod2" -> v.num % 2
      [] OTHER -> KeySelect(sel, v)

\* predicates over Person:
\*   "adult" p => p.age > 1
\*   "odd"   p => p.id % 2 === 1
Predicates == {"adult", "odd"}
Test(pred, p) ==
    CASE pred = "adult" -> p.age > 1
      [] pred = "odd" -> p.id % 2 = 1

\* result selectors of join:
\*   "pair"  (p, d) => ({ left: p, right: d })
ResultSelectors == {"pair"}
ResultSelect(sel, p, d) == [left |-> p, right |-> d]

\* group selectors of toGroup:
\*   "shape" (key, items) => ({ departmentId: key, users: items })
\*   "size"  (key, items) => ({ size: items.length })
GroupSelectors == {"shape", "size"}
GroupSelect(sel, key, items) ==
    IF sel = "shape" THEN [departmentId |-> key, users |-> items]
    ELSE [size |-> Len(items)]

(* ------------------------- Array.prototype ---------------------------- *)
\* relative index of slice: negative counts from the end, clamped to 0..len
RelIndex(i, len) == IF i < 0 THEN Max2(len + i, 0) ELSE Min2(i, len)

Slice(s, start, end) ==
    LET k == RelIndex(start, Len(s))
        f == RelIndex(end, Len(s))
    IN  IF k < f THEN [i \in 1..(f - k) |-> s[k + i]] ELSE <<>>

Filter(s, pred) == SelectSeq(s, LAMBDA p : Test(pred, p))

\* mutant: the descending flag is ignored
CompareAscending(a, b, key, descending) ==
    IF a[key] = b[key] THEN 0
    ELSE IF a[key] > b[key] THEN 1
    ELSE -1

\* the comparator handed to sort
Compare(a, b, key, descending) ==
    IF a[key] = b[key] THEN 0
    ELSE IF a[key] > b[key] THEN (IF descending THEN -1 ELSE 1)
    ELSE (IF descending THEN 1 ELSE -1)

RECURSIVE Insert(_, _, _, _)
Insert(x, t, key, descending) ==
    IF t = <<>> THEN <<x>>
    ELSE IF Compare(x, Head(t), key, descending) < 0 THEN <<x>> \o t
    ELSE <<Head(t)>> \o Insert(x, Tail(t), key, descending)

\* mutant: descending order obtained by reversing an ascending sort
RECURSIVE SortThenReverse(_, _, _)
SortThenReverse(s, key, descending) ==
    IF s = <<>> THEN <<>>
    ELSE IF descending
         THEN LET asc == SortThenReverse(s, key, FALSE)
              IN  [i \in 1..Len(asc) |-> asc[Len(asc) + 1 - i]]
         ELSE Insert(s[Len(s)], SortThenReverse(SubSeq(s, 1, Len(s) - 1), key, FALSE), key, FALSE)

\* sort with a comparator: stable
RECURSIVE Sort(_, _, _)
Sort(s, key, descending) ==
    IF s = <<>> THEN <<>>
    ELSE Insert(s[Len(s)], Sort(SubSeq(s, 1, Len(s) - 1), key, descending), key, descending)

(* ------------------------------- Map ---------------------------------- *)
\* a Map is the sequence of its entries [key, value] in insertion order
MapIndex(m, key) ==
    LET hits == { i \in 1..Len(m) : SameValueZero(m[i].key, key) }
    IN  IF hits = {} THEN 0 ELSE CHOOSE i \in hits : TRUE

MapGet(m, key) ==
    IF MapIndex(m, key) = 0 THEN Undefined ELSE m[MapIndex(m, key)].value

MapSet(m, key, value) ==
    IF MapIndex(m, key) = 0 THEN Append(m, [key |-> key, value |-> value])
    ELSE [m EXCEPT ![MapIndex(m, key)].value = value]

(* ------------------------ method bodies (pure) ------------------------ *)
\* select: one fresh record per item holding the named fields only
SelectItems(items, keys) ==
    [i \in 1..Len(items) |-> [k \in keys |-> items[i][k]]]

\* groups.find(g => g.key === key): index of the first hit, 0 when none
FindGroup(groups, key) ==
    LET hits == { i \in 1..Len(groups) : StrictEq(groups[i].key, key) }
    IN  IF hits = {} THEN 0 ELSE CHOOSE i \in hits : \A j \in hits : i <= j

\* mutant: a new group is put in front of the groups found so far
GroupStepUnshift(groups, item, sel) ==
    LET key == KeySelect(sel, item)
        g == FindGroup(groups, key)
    IN  IF g # 0 THEN [groups EXCEPT ![g].group = Append(@, item)]
        ELSE <<[key |-> key, group |-> <<item>>]>> \o groups

\* the reducer of groupBy
GroupStep(groups, item, sel) ==
    LET key == KeySelect(sel, item)
        g == FindGroup(groups, key)
    IN  IF g # 0 THEN [groups EXCEPT ![g].group = Append(@, item)]
        ELSE Append(groups, [key |-> key, group |-> <<item>>])

RECURSIVE GroupByItems(_, _)
GroupByItems(items, sel) ==
    IF items = <<>> THEN <<>>
    ELSE GroupStep(GroupByItems(SubSeq(items, 1, Len(items) - 1), sel), items[Len(items)], sel)

\* the first loop of toGroup: key -> items collected in a Map
RECURSIVE GroupsMap(_, _)
GroupsMap(items, sel) ==
    IF items = <<>> THEN <<>>
    ELSE LET m == GroupsMap(SubSeq(items, 1, Len(items) - 1), sel)
             item == items[Len(items)]
             key == KeySelect(sel, item)
             group == IF MapIndex(m, key) = 0 THEN <<>> ELSE MapGet(m, key)
         IN  MapSet(m, key, Append(group, item))

\* the second loop of toGroup: one record per Map entry
ToGroupItems(items, sel, gsel) ==
    LET m == GroupsMap(items, sel)
    IN  [i \in 1..Len(m) |-> [key |-> m[i].key, group |-> GroupSelect(gsel, m[i].key, m[i].value)]]

\* the lookup of join: otherKeySelector(item) -> item, later entries overwrite
RECURSIVE OtherItemsMap(_, _)
OtherItemsMap(otherItems, osel) ==
    IF otherItems = <<>> THEN <<>>
    ELSE MapSet(OtherItemsMap(SubSeq(otherItems, 1, Len(otherItems) - 1), osel),
                OtherKeySelect(osel, otherItems[Len(otherItems)]),
                otherItems[Len(otherItems)])

\* the row join maps a left item to
JoinRow(m, item, sel, rsel) ==
    LET otherItem == MapGet(m, KeySelect(sel, item))
    IN  IF ToBoolean(otherItem) THEN ResultSelect(rsel, item, otherItem) ELSE Undefined

JoinItems(items, otherItems, sel, osel, rsel) ==
    LET m == OtherItemsMap(otherItems, osel)
        rows == [i \in 1..Len(items) |-> JoinRow(m, items[i], sel, rsel)]
    IN  SelectSeq(rows, LAMBDA r : r # Undefined)

RECURSIVE SumItems(_, _)
SumItems(items, key) ==
    IF items = <<>> THEN 0
    ELSE SumItems(SubSeq(items, 1, Len(items) - 1), key) + items[Len(items)][key]

\* sum / count as an exact fraction; 0 on an empty sequence
AvgItems(items, key) ==
    IF Len(items) = 0 THEN [num |-> 0, den |-> 1]
    ELSE [num |-> SumItems(items, key), den |-> Len(items)]

\* mutant: max compares with < like min
RECURSIVE MaxItemLt(_, _)
MaxItemLt(items, key) ==
    IF items = <<>> THEN Null
    ELSE LET maxItem == MaxItemLt(SubSeq(items, 1, Len(items) - 1), key)
             item == items[Len(items)]
         IN  IF maxItem = Null THEN item
             ELSE IF Lt(item[key], maxItem[key]) THEN item ELSE maxItem

RECURSIVE MaxItem(_, _)
MaxItem(items, key) ==
    IF items = <<>> THEN Null
    ELSE LET maxItem == MaxItem(SubSeq(items, 1, Len(items) - 1), key)
             item == items[Len(items)]
         IN  IF maxItem = Null THEN item
             ELSE IF Gt(item[key], maxItem[key]) THEN item ELSE maxItem

RECURSIVE MinItem(_, _)
MinItem(items, key) ==
    IF items = <<>> THEN Null
    ELSE LET minItem == MinItem(SubSeq(items, 1, Len(items) - 1), key)
             item == items[Len(items)]
         IN  IF minItem = Null THEN item
             ELSE IF Lt(item[key], minItem[key]) THEN item ELSE minItem

Every(items, pred) == \A i \in 1..Len(items) : Test(pred, items[i])

\* items[i] with a zero-based index: undefined out of range
At(items, i) == IF i >= 0 /\ i < Len(items) THEN items[i + 1] ELSE Undefined

(* ------------------------------ state --------------------------------- *)
\* engines[e]: the engine instance e; items is its wrapped sequence and T
\* the element type its methods are typed over.  The caller holds two
\* references: engines[1] is the engine it constructed, engines[2] the engine
\* most recently derived from it (an earlier one is dropped when the next is
\* derived).  ret: the last call and what it returned (input is the wrapped
\* sequence when the call was made, result an engine reference or a value).

Instances == 1..Len(engines)
PersonEngines == { e \in Instances : engines[e].T = "Person" }
Counts == (0 - 1)..MaxCount
PageIndexes == {0, 1, 2}

\* new QueryBuilder(items) returned to the caller of an operator
Construct(T, items) ==
    engines' = <<engines[1], [T |-> T, items |-> items]>>

SkipItems(items, count) == Slice(items, count, Len(items))
TakeItems(items, count) == Slice(items, 0, count)
\* mutant: one-based page index
PageItemsOneBased(items, pageIndex, pageSize) ==
    LET startIndex == (pageIndex - 1) * pageSize
    IN  TakeItems(SkipItems(items, startIndex), pageSize)

PageItems(items, pageIndex, pageSize) ==
    LET startIndex == pageIndex * pageSize
    IN  TakeItems(SkipItems(items, startIndex), pageSize)

Init ==
    /\ \E items \in Sources : engines = <<[T |-> "Person", items |-> items]>>
    /\ ret = [op |-> "new", self |-> 1, result |-> 1]

\* mutant: from builds a new engine and leaves this one alone
FromFresh(e, items) ==
    /\ Construct(engines[e].T, items)
    /\ ret' = [op |-> "from", self |-> e, items |-> items, result |-> 2]

From(e, items) ==
    /\ engines' = [engines EXCEPT ![e].items = items]
    /\ ret' = [op |-> "from", self |-> e, items |-> items, result |-> e]

Select(e, keys) ==
    /\ Construct("Pick", SelectItems(engines[e].items, keys))
    /\ ret' = [op |-> "select", self |-> e, input |-> engines[e].items,
               keys |-> keys, result |-> 2]

Where(e, predicate) ==
    /\ Construct(engines[e].T, Filter(engines[e].items, predicate))
    /\ ret' = [op |-> "where", self |-> e, input |-> engines[e].items,
               predicate |-> predicate, result |-> 2]

\* mutant: sort without slice(), in place, returning this
OrderByInPlace(e, key, descending) ==
    /\ engines' = [engines EXCEPT ![e].items = Sort(@, key, Descending(descending))]
    /\ ret' = [op |-> "orderBy", self |-> e, input |-> engines[e].items,
               key |-> key, descending |-> descending, result |-> e]

OrderBy(e, key, descending) ==
    /\ Construct(engines[e].T, Sort(engines[e].items, key, Descending(descending)))
    /\ ret' = [op |-> "orderBy", self |-> e, input |-> engines[e].items,
               key |-> key, descending |-> descending, result |-> 2]

Skip(e, count) ==
    /\ Construct(engines[e].T, SkipItems(engines[e].items, count))
    /\ ret' = [op |-> "skip", self |-> e, input |-> engines[e].items,
               count |-> count, result |-> 2]

Take(e, count) ==
    /\ Construct(engines[e].T, TakeItems(engines[e].items, count))
    /\ ret' = [op |-> "take", self |-> e, input |-> engines[e].items,
               count |-> count, result |-> 2]

Page(e, pageIndex, pageSize) ==
    /\ Construct(engines[e].T, PageItems(engines[e].items, pageIndex, pageSize))
    /\ ret' = [op |-> "page", self |-> e, input |-> engines[e].items,
               pageIndex |-> pageIndex, pageSize |-> pageSize, result |-> 2]

GroupBy(e, keySelector) ==
    /\ Construct("Group", GroupByItems(engines[e].items, keySelector))
    /\ ret' = [op |-> "groupBy", self |-> e, input |-> engines[e].items,
               keySelector |-> keySelector, result |-> 2]

\* other instanceof QueryBuilder ? other.items : other
Unwrap(other) ==
    IF "engine" \in DOMAIN other THEN engines[other.engine].items ELSE other.array

Join(e, other, keySelector, otherKeySelector, resultSelector) ==
    /\ Construct("Row", JoinItems(engines[e].items, Unwrap(other), keySelector,
                                  otherKeySelector, resultSelector))
    /\ ret' = [op |-> "join", self |-> e, input |-> engines[e].items,
               other |-> other, otherItems |-> Unwrap(other),
               keySelector |-> keySelector, otherKeySelector |-> otherKeySelector,
               resultSelector |-> resultSelector, result |-> 2]

ToGroup(e, keySelector, groupSelector) ==
    /\ ret' = [op |-> "toGroup", self |-> e, input |-> engines[e].items,
               keySelector |-> keySelector, groupSelector |-> groupSelector,
               calls |-> GroupsMap(engines[e].items, keySelector),
               result |-> ToGroupItems(engines[e].items, keySelector, groupSelector)]
    /\ UNCHANGED engines

Count(e) ==
    /\ ret' = [op |-> "count", self |-> e, input |-> engines[e].items,
               result |-> Len(engines[e].items)]
    /\ UNCHANGED engines

Sum(e, key) ==
    /\ ret' = [op |-> "sum", self |-> e, input |-> engines[e].items, key |-> key,
               result |-> SumItems(engines[e].items, key)]
    /\ UNCHANGED engines

Avg(e, key) ==
    /\ ret' = [op |-> "avg", self |-> e, input |-> engines[e].items, key |-> key,
               result |-> AvgItems(engines[e].items, key)]
    /\ UNCHANGED engines

Max(e, key) ==
    /\ ret' = [op |-> "max", self |-> e, input |-> engines[e].items, key |-> key,
               result |-> MaxItem(engines[e].items, key)]
    /\ UNCHANGED engines

Min(e, key) ==
    /\ ret' = [op |-> "min", self |-> e, input |-> engines[e].items, key |-> key,
               result |-> MinItem(engines[e].items, key)]
    /\ UNCHANGED engines

AnyItem(e) ==
    /\ ret' = [op |-> "any", self |-> e, input |-> engines[e].items,
               result |-> Len(engines[e].items) > 0]
    /\ UNCHANGED engines

All(e, predicate) ==
    /\ ret' = [op |-> "all", self |-> e, input |-> engines[e].items,
               predicate |-> predicate, result |-> Every(engines[e].items, predicate)]
    /\ UNCHANGED engines

First(e) ==
    /\ ret' = [op |-> "first", self |-> e, input |-> engines[e].items,
               result |-> At(engines[e].items, 0)]
    /\ UNCHANGED engines

Last(e) ==
    /\ ret' = [op |-> "last", self |-> e, input |-> engines[e].items,
               result |-> At(engines[e].items, Len(engines[e].items) - 1)]
    /\ UNCHANGED engines

ToArray(e) ==
    /\ ret' = [op |-> "toArray", self |-> e, input |-> engines[e].items,
               result |-> engines[e].items]
    /\ UNCHANGED engines

Next ==
    \/ \E e \in PersonEngines, items \in Replacements : From(e, items)
    \/ \E keys \in SUBSET Keys : Select(1, keys)
    \/ \E predicate \in Predicates : Where(1, predicate)
    \/ \E key \in Keys, descending \in DescArgs : OrderBy(1, key, descending)
    \/ \E count \in Counts : Skip(1, count)
    \/ \E count \in Counts : Take(1, count)
    \/ \E pageIndex \in PageIndexes, pageSize \in Counts : Page(1, pageIndex, pageSize)
    \/ \E keySelector \in KeySelectors : GroupBy(1, keySelector)
    \/ \E other \in NumberArrays, keySelector \in JoinSelectors,
          otherKeySelector \in NumSelectors, resultSelector \in ResultSelectors :
            Join(1, [array |-> other], keySelector, otherKeySelector, resultSelector)
    \/ \E o \in PersonEngines, keySelector \in JoinSelectors,
          otherKeySelector \in JoinSelectors, resultSelector \in ResultSelectors :
            Join(1, [engine |-> o], keySelector, otherKeySelector, resultSelector)
    \/ \E keySelector \in KeySelectors, groupSelector \in GroupSelectors :
            ToGroup(1, keySelector, groupSelector)
    \/ \E e \in Instances : Count(e)
    \/ \E key \in Keys : Sum(1, key)
    \/ \E key \in Keys : Avg(1, key)
    \/ \E key \in Keys : Max(1, key)
    \/ \E key \in Keys : Min(1, key)
    \/ \E e \in Instances : AnyItem(e)
    \/ \E predicate \in Predicates : All(1, predicate)
    \/ \E e \in Instances : First(e)
    \/ \E e \in Instances : Last(e)
    \/ \E e \in Instances : ToArray(e)

Spec == Init /\ [][Next]_vars

(* ------------------------------ claims -------------------------------- *)
Creating == {"select", "where", "orderBy", "skip", "take", "page", "groupBy", "join"}

\* C1: no call other than from changes the wrapped sequence of the engine it
\* is made on (nor of any other engine the caller holds), and each of select,
\* where, orderBy, skip, take, page, groupBy and join returns an engine
\* instance different from the one it was called on.
C1_OperatorsLeaveEngineUnchanged ==
    [][ ret'.op # "from" =>
          /\ engines'[ret'.self] = engines[ret'.self]
          /\ engines'[1] = engines[1]
          /\ engines'[ret'.self].items = ret'.input
          /\ (ret'.op \in Creating => ret'.result # ret'.self) ]_vars

\* an orderBy that had to reorder: the engine still wraps the unsorted input
C1_Witness ==
    /\ ret.op = "orderBy"
    /\ Len(ret.input) = MaxLen
    /\ engines[ret.result].items # ret.input
    /\ engines[ret.self].items = ret.input
    /\ ret.result # ret.self

\* C2: from(items) replaces the wrapped sequence of the engine it is called
\* on and returns that same instance; every other engine keeps its sequence.
C2_FromReplacesInPlace ==
    [][ ret'.op = "from" =>
          /\ ret'.result = ret'.self
          /\ engines'[ret'.self].items = ret'.items
          /\ engines'[ret'.self].T = engines[ret'.self].T
          /\ DOMAIN engines' = DOMAIN engines
          /\ \A e \in DOMAIN engines \ {ret'.self} : engines'[e] = engines[e] ]_vars

\* from on the parent of a filtered child: the child still holds more items
\* than the parent now wraps
C2_Witness ==
    /\ ret.op = "from"
    /\ ret.self = 1
    /\ Len(engines) = 2
    /\ engines[1].items = ret.items
    /\ engines[2].T = "Person"
    /\ Len(engines[2].items) > Len(engines[1].items)

\* C3: join emits, in left order, exactly one row resultSelector(item, match)
\* for every left item whose key is a key of some right-hand item (match
\* being the entry of the lookup), and nothing for the other left items.
C3_InnerEquiJoin ==
    ret.op = "join" =>
        LET S == ret.input
            O == ret.otherItems
            Matches(p) == { j \in 1..Len(O) :
                              OtherKeySelect(ret.otherKeySelector, O[j]) = KeySelect(ret.keySelector, p) }
            LastMatch(p) == CHOOSE j \in Matches(p) : \A k \in Matches(p) : k <= j
            matched == SelectSeq(S, LAMBDA p : Matches(p) # {})
        IN  engines[ret.result].items =
                [i \in 1..Len(matched) |->
                    ResultSelect(ret.resultSelector, matched[i], O[LastMatch(matched[i])])]

\* C4: a left item whose key is the key of several right-hand items yields
\* exactly one row, and that row pairs it with the last of them.
C4_LastDuplicateWins ==
    ret.op = "join" =>
        LET S == ret.input
            O == ret.otherItems
            R == engines[ret.result].items
            Matches(p) == { j \in 1..Len(O) :
                              OtherKeySelect(ret.otherKeySelector, O[j]) = KeySelect(ret.keySelector, p) }
            LastMatch(p) == CHOOSE j \in Matches(p) : \A k \in Matches(p) : k <= j
        IN  \A i \in 1..Len(S) :
                Cardinality(Matches(S[i])) >= 2 =>
                    /\ Cardinality({ r \in 1..Len(R) : R[r].left = S[i] }) = 1
                    /\ \A r \in 1..Len(R) : R[r].left = S[i] => R[r].right = O[LastMatch(S[i])]

\* C5: groupBy partitions the wrapped sequence: every item is in exactly one
\* group, under its own key; no two groups have === keys; groups come in the
\* order their keys were first seen; items keep their order inside a group.
C5_GroupByPartitions ==
    ret.op = "groupBy" =>
        LET S == ret.input
            G == engines[ret.result].items
            K(p) == KeySelect(ret.keySelector, p)
            Pos(p) == CHOOSE i \in 1..Len(S) : S[i] = p
            Places(p) == { gj \in (1..Len(G)) \X (1..MaxLen) :
                             gj[2] <= Len(G[gj[1]].group) /\ G[gj[1]].group[gj[2]] = p }
        IN  /\ \A i \in 1..Len(S) : Cardinality(Places(S[i])) = 1
            /\ \A g \in 1..Len(G) :
                 /\ Len(G[g].group) >= 1
                 /\ \A j \in 1..Len(G[g].group) :
                      /\ \E i \in 1..Len(S) : S[i] = G[g].group[j]
                      /\ K(G[g].group[j]) = G[g].key
                 /\ \A j, k \in 1..Len(G[g].group) :
                      j < k => Pos(G[g].group[j]) < Pos(G[g].group[k])
            /\ \A g, h \in 1..Len(G) :
                 g < h => /\ ~StrictEq(G[g].key, G[h].key)
                          /\ Pos(G[g].group[1]) < Pos(G[h].group[1])
            /\ \A i \in 1..Len(S) :
                 (\A j \in 1..(i - 1) : ~StrictEq(K(S[j]), K(S[i])))
                     => \E g \in 1..Len(G) : G[g].group[1] = S[i]

\* groups interleaved in the input, first-seen order differing from key order
C5_Witness ==
    /\ ret.op = "groupBy"
    /\ Len(ret.input) = 3
    /\ Len(engines[ret.result].items) = 2
    /\ engines[ret.result].items[1].key > engines[ret.result].items[2].key
    /\ engines[ret.result].items[1].group = <<ret.input[1], ret.input[3]>>

\* C6: toGroup yields the keys of groupBy in the same order, hands
\* groupSelector the group groupBy builds for each key, and calls it once per
\* distinct key.
C6_ToGroupSameAsGroupBy ==
    ret.op = "toGroup" =>
        LET G == GroupByItems(ret.input, ret.keySelector)
            distinct == { KeySelect(ret.keySelector, ret.input[i]) : i \in 1..Len(ret.input) }
        IN  /\ Len(ret.result) = Len(G)
            /\ Len(ret.calls) = Cardinality(distinct)
            /\ \A g \in 1..Len(G) :
                 g <= Len(ret.result) =>
                    /\ ret.result[g].key = G[g].key
                    /\ ret.calls[g].key = G[g].key
                    /\ ret.calls[g].value = G[g].group

\* C7: orderBy yields a permutation of the wrapped sequence whose key values
\* are non-decreasing, or non-increasing when descending is true.
C7_OrderBySorts ==
    ret.op = "orderBy" =>
        LET S == ret.input
            R == engines[ret.result].items
            Occ(seq, x) == Cardinality({ i \in 1..Len(seq) : seq[i] = x })
        IN  /\ Len(R) = Len(S)
            /\ \A i \in 1..Len(S) : Occ(R, S[i]) = Occ(S, S[i])
            /\ \A i, j \in 1..Len(R) :
                 i < j => IF ret.descending = "true"
                          THEN R[i][ret.key] >= R[j][ret.key]
                          ELSE R[i][ret.key] <= R[j][ret.key]

\* a descending sort of three items that had to move one
C7_Witness ==
    /\ ret.op = "orderBy"
    /\ ret.descending = "true"
    /\ ret.key = "age"
    /\ Len(ret.input) = 3
    /\ engines[ret.result].items # ret.input
    /\ engines[ret.result].items[1].age > engines[ret.result].items[3].age

\* C8: in a descending orderBy, items with equal key values keep the relative
\* order they had in the wrapped sequence.
C8_DescendingKeepsTies ==
    (ret.op = "orderBy" /\ ret.descending = "true") =>
        LET S == ret.input
            R == engines[ret.result].items
        IN  \A i, j \in 1..Len(S) :
                (i < j /\ S[i][ret.key] = S[j][ret.key]) =>
                    \E a, b \in 1..Len(R) : a < b /\ R[a] = S[i] /\ R[b] = S[j]

\* the test of orderBy: [30, 25, 30]-shaped input, the tie stays in order
\* behind the larger key
C8_Witness ==
    /\ ret.op = "orderBy"
    /\ ret.descending = "true"
    /\ ret.key = "age"
    /\ Len(ret.input) = 3
    /\ ret.input[1].age = 1 /\ ret.input[2].age = 2 /\ ret.input[3].age = 1
    /\ engines[ret.result].items = <<ret.input[2], ret.input[1], ret.input[3]>>

\* C9: max and min return an item of the wrapped sequence whose key value
\* bounds that of every item from above, respectively from below, and null
\* on an empty sequence.
C9_MaxMinExtremal ==
    /\ ret.op = "max" =>
         IF ret.input = <<>> THEN ret.result = Null
         ELSE /\ \E i \in 1..Len(ret.input) : ret.input[i] = ret.result
              /\ \A i \in 1..Len(ret.input) : ret.result[ret.key] >= ret.input[i][ret.key]
    /\ ret.op = "min" =>
         IF ret.input = <<>> THEN ret.result = Null
         ELSE /\ \E i \in 1..Len(ret.input) : ret.input[i] = ret.result
              /\ \A i \in 1..Len(ret.input) : ret.result[ret.key] <= ret.input[i][ret.key]

\* the maximum sits in the middle of the sequence
C9_Witness ==
    /\ ret.op = "max"
    /\ ret.key = "age"
    /\ Len(ret.input) = 3
    /\ ret.result = ret.input[2]
    /\ ret.input[1].age < ret.input[2].age
    /\ ret.input[3].age < ret.input[2].age

\* C10: page(pageIndex, pageSize) is skip(pageIndex * pageSize) followed by
\* take(pageSize); a page starting at or beyond the end is empty, a page
\* running past the end holds the remaining items.
C10_PageIsSkipTake ==
    ret.op = "page" =>
        LET S == ret.input
            R == engines[ret.result].items
            start == ret.pageIndex * ret.pageSize
        IN  /\ R = TakeItems(SkipItems(S, start), ret.pageSize)
            /\ start >= Len(S) => R = <<>>
            /\ (ret.pageSize >= 0 /\ start < Len(S)) =>
                 R = SubSeq(S, start + 1, Min2(start + ret.pageSize, Len(S)))

\* the second page of size two of three items: one item is left
C10_Witness ==
    /\ ret.op = "page"
    /\ ret.pageIndex = 1
    /\ ret.pageSize = 2
    /\ Len(ret.input) = 3
    /\ engines[ret.result].items = <<ret.input[3]>>

====
